---- MODULE Spec2Model ----
(***************************************************************************)
(* Part 4 REST API (src/part-4/app.py): the Author and Book tables of the   *)
(* SQLite store behind Flask-SQLAlchemy, and the request handlers that      *)
(* read and write them.                                                     *)
(*                                                                          *)
(* A column value is None (SQL NULL / JSON null / Python None) or Some(v).  *)
(* A title is a sequence of one-character strings, so that LIKE matching    *)
(* and lower() are computed on it; every other string is atomic.            *)
(* Book.created_at is set once by the column default and read by no         *)
(* handler except for serialisation; it is not part of the model.           *)
(***************************************************************************)
EXTENDS Integers, Sequences, FiniteSets, TLC

VARIABLES
    authors,    \* the author table: id -> row
    books,      \* the book table: id -> row
    book_log,   \* history: ids of the stored books, in the order they were inserted
    last,       \* the request served last, with its response
    nreq,       \* number of requests served
    session     \* the requests in flight (concurrent specification): proc -> record

vars == <<authors, books, book_log, last, nreq, session>>

store == <<authors, books>>

(***************************************************************************)
(* Bounds                                                                   *)
(***************************************************************************)
MaxRequests == 2

NProcs == 2

(***************************************************************************)
(* Values                                                                   *)
(***************************************************************************)
None == <<>>

Some(v) == <<v>>

PythonCrashCourse ==
    <<"P","y","t","h","o","n"," ","C","r","a","s","h"," ","C","o","u","r","s","e">>

FlaskWebDevelopment ==
    <<"F","l","a","s","k"," ","W","e","b"," ","D","e","v","e","l","o","p","m","e","n","t">>

UpperChars ==
    <<"A","B","C","D","E","F","G","H","I","J","K","L","M",
      "N","O","P","Q","R","S","T","U","V","W","X","Y","Z">>

LowerChars ==
    <<"a","b","c","d","e","f","g","h","i","j","k","l","m",
      "n","o","p","q","r","s","t","u","v","w","x","y","z">>

\* ids a request may name: the seeded ones and some that do not exist
IdInputs == 1..3

\* dict.get(k): None when the key is missing
Get(d, k) == IF k \in DOMAIN d THEN d[k] ELSE None

\* Python truthiness of a JSON value of a request body
TruthyStr(v) == v # None /\ v[1] # ""

TruthySeq(v) == v # None /\ v[1] # <<>>

TruthyInt(v) == v # None /\ v[1] # 0

SetMax(S) == CHOOSE m \in S : \A x \in S : x <= m

SetMin(S) == CHOOSE m \in S : \A x \in S : m <= x

RECURSIVE SortedIds(_)
\* a table scan: SQLite walks the rowid b-tree in ascending rowid order
SortedIds(S) ==
    IF S = {} THEN <<>>
    ELSE <<SetMin(S)>> \o SortedIds(S \ {SetMin(S)})

\* (mutant) the smallest id no row uses, so that the id of a deleted row is reused
NextIdLowestFree(table) ==
    SetMin({i \in 1..(Cardinality(DOMAIN table) + 1) : i \notin DOMAIN table})

\* INTEGER PRIMARY KEY without AUTOINCREMENT: the largest rowid in the table plus one
NextId(table) ==
    IF DOMAIN table = {} THEN 1 ELSE SetMax(DOMAIN table) + 1

\* Author.query.get(id) / get_or_404(id): is there a row with this primary key
AuthorExists(A, id) == id \in DOMAIN A

BookExists(B, id) == id \in DOMAIN B

(***************************************************************************)
(* Models                                                                   *)
(***************************************************************************)
Author(name, bio, city) == [name |-> name, bio |-> bio, city |-> city]

Book(title, author_id, year, isbn) ==
    [title |-> title, author_id |-> author_id, year |-> year, isbn |-> isbn]

\* Author.books: lazy load, SELECT ... FROM book WHERE author_id = :id, no ORDER BY
AuthorBooks(B, id) ==
    LET Owned(b) == B[b].author_id = Some(id)
    IN  SelectSeq(SortedIds(DOMAIN B), Owned)

Author_to_dict(A, B, id) ==
    [id |-> id, name |-> A[id].name, bio |-> A[id].bio, city |-> A[id].city,
     books |-> [i \in DOMAIN AuthorBooks(B, id) |-> B[AuthorBooks(B, id)[i]].title]]

Book_to_dict(B, id) ==
    [id |-> id, title |-> B[id].title, author_id |-> B[id].author_id,
     year |-> B[id].year, isbn |-> B[id].isbn]

\* nullable=False on Author.name
AuthorsOK(A) == \A a \in DOMAIN A : A[a].name # None

\* (mutant) the isbn column without unique=True
BooksOKNoUnique(B) ==
    \A b \in DOMAIN B : B[b].title # None /\ B[b].author_id # None

\* nullable=False on Book.title and Book.author_id, unique=True on Book.isbn.
\* The ForeignKey on Book.author_id is declared but SQLite does not enforce it:
\* no PRAGMA foreign_keys=ON is issued on the connection.
BooksOK(B) ==
    /\ \A b \in DOMAIN B : B[b].title # None /\ B[b].author_id # None
    /\ \A b, c \in DOMAIN B : (b # c /\ B[b].isbn # None) => B[b].isbn # B[c].isbn

\* (mutant) "row.k = data.get('k')": a key that is missing clears the column
AssignClearing(row, data) ==
    [k \in DOMAIN row |-> Get(data, k)]

\* "if 'k' in data: row.k = data['k']" for each column k the handler names
Assign(row, data) ==
    [k \in DOMAIN row |-> IF k \in DOMAIN data THEN data[k] ELSE row[k]]

\* removing ids from the insertion history
LogWithout(log, gone) ==
    LET Kept(b) == b \notin gone
    IN  SelectSeq(log, Kept)

(***************************************************************************)
(* Request bodies                                                           *)
(***************************************************************************)
Field(k, Vs) == {<<>>} \cup {k :> v : v \in Vs}

AuthorDicts ==
    {n @@ b @@ c :
        n \in Field("name", {None, Some(""), Some("Ann")}),
        b \in Field("bio", {Some("Poet")}),
        c \in Field("city", {None})}

BookDicts ==
    {t @@ a @@ y @@ i :
        t \in Field("title", {Some(<<"W","e","b">>)}),
        a \in Field("author_id", {Some(0), Some(2), Some(3)}),
        y \in Field("year", {None, Some(2023)}),
        i \in Field("isbn", {Some("978-1593279288")})}

\* request.get_json(): JSON null, or a JSON object
AuthorBodies == {None} \cup {Some(d) : d \in AuthorDicts}

BookBodies == {None} \cup {Some(d) : d \in BookDicts}

\* request.args.get('q') and request.args.get('author_id'); None when not given
SearchTitles == {None, Some(<<>>), Some(<<"f","l","a","s","k">>), Some(<<"_">>)}

SearchAuthorIds == {None, Some(2), Some(3)}

(***************************************************************************)
(* init_db                                                                  *)
(***************************************************************************)
Idle == [pc |-> "idle"]

Init ==
    /\ authors = (1 :> Author(Some("Eric Matthes"), Some("Python Expert"), Some("Chicago")))
              @@ (2 :> Author(Some("Miguel Grinberg"), Some("Flask Guru"), Some("Dublin")))
    /\ books = (1 :> Book(Some(PythonCrashCourse), Some(1), Some(2019), Some("978-1593279288")))
            @@ (2 :> Book(Some(FlaskWebDevelopment), Some(2), Some(2018), Some("978-1491991732")))
    /\ book_log = <<1, 2>>
    /\ last = [op |-> "init_db", id |-> 0, req |-> None, status |-> 0, body |-> None]
    /\ nreq = 0
    /\ session = [p \in 1..NProcs |-> Idle]

(***************************************************************************)
(* Responses                                                                *)
(***************************************************************************)
Respond(op, id, req, status, body) ==
    /\ last' = [op |-> op, id |-> id, req |-> req, status |-> status, body |-> body]
    /\ nreq' = nreq + 1
    /\ UNCHANGED session

\* a request that ends without a commit: the tables stay as they are
Reject(op, id, req, status, body) ==
    /\ Respond(op, id, req, status, body)
    /\ UNCHANGED <<authors, books, book_log>>

(***************************************************************************)
(* Author routes                                                            *)
(***************************************************************************)
get_authors ==
    /\ nreq < MaxRequests
    /\ Reject("get_authors", 0, None, 200,
              [count |-> Cardinality(DOMAIN authors),
               authors |-> [i \in 1..Cardinality(DOMAIN authors) |->
                               Author_to_dict(authors, books, SortedIds(DOMAIN authors)[i])]])

get_author(id) ==
    /\ nreq < MaxRequests
    /\ IF ~AuthorExists(authors, id)
       THEN Reject("get_author", id, None, 404, "Not Found")
       ELSE Reject("get_author", id, None, 200, Author_to_dict(authors, books, id))

\* "not data or not data.get('name')"
AuthorBodyInvalid(body) ==
    \/ body = None
    \/ body[1] = <<>>
    \/ ~TruthyStr(Get(body[1], "name"))

create_author(body) ==
    /\ nreq < MaxRequests
    /\ IF AuthorBodyInvalid(body)
       THEN Reject("create_author", 0, body, 400, "Name is required")
       ELSE LET data == body[1]
                id == NextId(authors)
                A2 == authors @@ (id :> Author(data["name"], Get(data, "bio"), Get(data, "city")))
            IN  IF AuthorsOK(A2)
                THEN /\ authors' = A2
                     /\ UNCHANGED <<books, book_log>>
                     /\ Respond("create_author", id, body, 201, Author_to_dict(A2, books, id))
                ELSE Reject("create_author", 0, body, 500, "IntegrityError")

update_author(id, body) ==
    /\ nreq < MaxRequests
    /\ IF ~AuthorExists(authors, id)
       THEN Reject("update_author", id, body, 404, "Not Found")
       ELSE IF body = None
       THEN Reject("update_author", id, body, 500, "TypeError")
       ELSE LET A2 == [authors EXCEPT ![id] = Assign(authors[id], body[1])]
            IN  IF AuthorsOK(A2)
                THEN /\ authors' = A2
                     /\ UNCHANGED <<books, book_log>>
                     /\ Respond("update_author", id, body, 200, Author_to_dict(A2, books, id))
                ELSE Reject("update_author", id, body, 500, "IntegrityError")

\* (mutant) the relationship without cascade: the books stay
CascadeNone(B, id) == {}

\* cascade="all, delete-orphan": the books loaded through author.books are
\* deleted in the flush that deletes the author
Cascade(B, id) == {b \in DOMAIN B : B[b].author_id = Some(id)}

Without(table, gone) == [k \in DOMAIN table \ gone |-> table[k]]

delete_author(id) ==
    /\ nreq < MaxRequests
    /\ IF ~AuthorExists(authors, id)
       THEN Reject("delete_author", id, None, 404, "Not Found")
       ELSE /\ authors' = Without(authors, {id})
            /\ books' = Without(books, Cascade(books, id))
            /\ book_log' = LogWithout(book_log, Cascade(books, id))
            /\ Respond("delete_author", id, None, 200, "Author and their books deleted")

(***************************************************************************)
(* Book routes                                                              *)
(***************************************************************************)
get_books ==
    /\ nreq < MaxRequests
    /\ Reject("get_books", 0, None, 200,
              [count |-> Cardinality(DOMAIN books),
               books |-> [i \in 1..Cardinality(DOMAIN books) |->
                             Book_to_dict(books, SortedIds(DOMAIN books)[i])]])

get_book(id) ==
    /\ nreq < MaxRequests
    /\ IF ~BookExists(books, id)
       THEN Reject("get_book", id, None, 404, "Not Found")
       ELSE Reject("get_book", id, None, 200, Book_to_dict(books, id))

\* "not data or not data.get('title') or not data.get('author_id')"
BookBodyInvalid(body) ==
    \/ body = None
    \/ body[1] = <<>>
    \/ ~TruthySeq(Get(body[1], "title"))
    \/ ~TruthyInt(Get(body[1], "author_id"))

\* (mutant) the author looked up before the required fields are checked
CreateBookErrorAuthorFirst(A, body) ==
    IF body # None /\ TruthyInt(Get(body[1], "author_id"))
                  /\ ~AuthorExists(A, body[1]["author_id"][1]) THEN 404
    ELSE IF BookBodyInvalid(body) THEN 400
    ELSE 0

\* the checks of create_book, in the handler's order: 400, then 404, else none (0)
CreateBookError(A, body) ==
    IF BookBodyInvalid(body) THEN 400
    ELSE IF ~AuthorExists(A, body[1]["author_id"][1]) THEN 404
    ELSE 0

create_book(body) ==
    /\ nreq < MaxRequests
    /\ IF CreateBookError(authors, body) = 400
       THEN Reject("create_book", 0, body, 400, "Title and author_id are required")
       ELSE IF CreateBookError(authors, body) = 404
       THEN Reject("create_book", 0, body, 404, "Author not found")
       ELSE LET data == body[1]
                id == NextId(books)
                B2 == books @@ (id :> Book(data["title"], data["author_id"],
                                           Get(data, "year"), Get(data, "isbn")))
            IN  IF BooksOK(B2)
                THEN /\ books' = B2
                     /\ book_log' = Append(book_log, id)
                     /\ UNCHANGED authors
                     /\ Respond("create_book", id, body, 201, Book_to_dict(B2, id))
                ELSE Reject("create_book", 0, body, 500, "IntegrityError")

update_book(id, body) ==
    /\ nreq < MaxRequests
    /\ IF ~BookExists(books, id)
       THEN Reject("update_book", id, body, 404, "Not Found")
       ELSE IF body = None
       THEN Reject("update_book", id, body, 500, "TypeError")
       ELSE LET B2 == [books EXCEPT ![id] = Assign(books[id], body[1])]
            IN  IF BooksOK(B2)
                THEN /\ books' = B2
                     /\ UNCHANGED <<authors, book_log>>
                     /\ Respond("update_book", id, body, 200, Book_to_dict(B2, id))
                ELSE Reject("update_book", id, body, 500, "IntegrityError")

\* (mutant) a delete by filter, which reports success when no row matched
delete_book_silent(id) ==
    /\ nreq < MaxRequests
    /\ books' = Without(books, {id} \cap DOMAIN books)
    /\ book_log' = LogWithout(book_log, {id})
    /\ UNCHANGED authors
    /\ Respond("delete_book", id, None, 200, "Book deleted")

delete_book(id) ==
    /\ nreq < MaxRequests
    /\ IF ~BookExists(books, id)
       THEN Reject("delete_book", id, None, 404, "Not Found")
       ELSE /\ books' = Without(books, {id})
            /\ book_log' = LogWithout(book_log, {id})
            /\ UNCHANGED authors
            /\ Respond("delete_book", id, None, 200, "Book deleted")

(***************************************************************************)
(* Search route                                                             *)
(***************************************************************************)
\* SQL lower(): folds the ASCII letters
LowerChar(c) ==
    IF \E i \in DOMAIN UpperChars : UpperChars[i] = c
    THEN LowerChars[CHOOSE i \in DOMAIN UpperChars : UpperChars[i] = c]
    ELSE c

Lower(s) == [i \in DOMAIN s |-> LowerChar(s[i])]

RECURSIVE Like(_, _)
\* SQL "s LIKE pat": % matches any run of characters, _ any one character
Like(s, pat) ==
    IF pat = <<>> THEN s = <<>>
    ELSE IF Head(pat) = "%"
    THEN Like(s, Tail(pat)) \/ (s # <<>> /\ Like(Tail(s), pat))
    ELSE /\ s # <<>>
         /\ (Head(pat) = "_" \/ Head(pat) = Head(s))
         /\ Like(Tail(s), Tail(pat))

\* Book.title.ilike(f'%{title}%'): lower(title) LIKE lower('%' || q || '%')
TitleILike(title, q) == Like(Lower(title), Lower(<<"%">> \o q \o <<"%">>))

\* "if title:" and "if author_id:" on the query-string arguments
SearchMatches(B, b, q, aid) ==
    /\ TruthySeq(q) => TitleILike(B[b].title[1], q[1])
    /\ aid # None => B[b].author_id = aid

SearchResults(B, q, aid) ==
    LET Hit(b) == SearchMatches(B, b, q, aid)
    IN  SelectSeq(SortedIds(DOMAIN B), Hit)

search_books(q, aid) ==
    /\ nreq < MaxRequests
    /\ Reject("search_books", 0, <<q, aid>>, 200,
              [count |-> Len(SearchResults(books, q, aid)),
               books |-> [i \in DOMAIN SearchResults(books, q, aid) |->
                             Book_to_dict(books, SearchResults(books, q, aid)[i])]])

(***************************************************************************)
(* One request at a time                                                    *)
(***************************************************************************)
Next ==
    \/ get_authors
    \/ \E id \in IdInputs : get_author(id)
    \/ \E body \in AuthorBodies : create_author(body)
    \/ \E id \in IdInputs, body \in AuthorBodies : update_author(id, body)
    \/ \E id \in IdInputs : delete_author(id)
    \/ get_books
    \/ \E id \in IdInputs : get_book(id)
    \/ \E body \in BookBodies : create_book(body)
    \/ \E id \in IdInputs, body \in BookBodies : update_book(id, body)
    \/ \E id \in IdInputs : delete_book(id)
    \/ \E q \in SearchTitles, aid \in SearchAuthorIds : search_books(q, aid)

Spec == Init /\ [][Next]_vars

(***************************************************************************)
(* Requests in flight together (threaded server, one session per request).  *)
(* A step is one round trip to SQLite.  The sqlite3 driver opens a          *)
(* transaction only before the first INSERT/UPDATE/DELETE, so the SELECTs   *)
(* of a handler run on their own and its flush-and-commit is one            *)
(* transaction.                                                             *)
(***************************************************************************)
Procs == 1..NProcs

Done(op, id, status) == [pc |-> "done", op |-> op, id |-> id, status |-> status]

\* delete_author: author = Author.query.get_or_404(id)
delete_author_get(p, id) ==
    /\ session[p].pc = "idle"
    /\ session' = [session EXCEPT ![p] =
          IF ~AuthorExists(authors, id)
          THEN Done("delete_author", id, 404)
          ELSE [pc |-> "delete_author_delete", op |-> "delete_author", id |-> id]]
    /\ UNCHANGED <<authors, books, book_log, last, nreq>>

\* delete_author: db.session.delete(author) loads author.books for the cascade
delete_author_delete(p) ==
    /\ session[p].pc = "delete_author_delete"
    /\ session' = [session EXCEPT ![p] =
          [pc |-> "delete_author_commit", op |-> "delete_author", id |-> session[p].id,
           loaded |-> Cascade(books, session[p].id)]]
    /\ UNCHANGED <<authors, books, book_log, last, nreq>>

\* delete_author: db.session.commit() deletes the loaded books by primary key,
\* then the author, in one transaction; a row that is already gone is a warning
delete_author_commit(p) ==
    /\ session[p].pc = "delete_author_commit"
    /\ authors' = Without(authors, {session[p].id})
    /\ books' = Without(books, session[p].loaded)
    /\ book_log' = LogWithout(book_log, session[p].loaded)
    /\ session' = [session EXCEPT ![p] = Done("delete_author", session[p].id, 200)]
    /\ UNCHANGED <<last, nreq>>

\* create_book: the required-field check and Author.query.get(data['author_id'])
create_book_check(p, body) ==
    /\ session[p].pc = "idle"
    /\ session' = [session EXCEPT ![p] =
          IF CreateBookError(authors, body) # 0
          THEN Done("create_book", 0, CreateBookError(authors, body))
          ELSE [pc |-> "create_book_commit", op |-> "create_book", body |-> body]]
    /\ UNCHANGED <<authors, books, book_log, last, nreq>>

\* create_book: db.session.add(new_book); db.session.commit()
create_book_commit(p) ==
    /\ session[p].pc = "create_book_commit"
    /\ LET data == session[p].body[1]
           id == NextId(books)
           B2 == books @@ (id :> Book(data["title"], data["author_id"],
                                      Get(data, "year"), Get(data, "isbn")))
       IN  IF BooksOK(B2)
           THEN /\ books' = B2
                /\ book_log' = Append(book_log, id)
                /\ session' = [session EXCEPT ![p] = Done("create_book", id, 201)]
           ELSE /\ UNCHANGED <<books, book_log>>
                /\ session' = [session EXCEPT ![p] = Done("create_book", 0, 500)]
    /\ UNCHANGED <<authors, last, nreq>>

\* update_book: book = Book.query.get_or_404(id); data = request.get_json()
update_book_get(p, id, body) ==
    /\ session[p].pc = "idle"
    /\ session' = [session EXCEPT ![p] =
          IF ~BookExists(books, id) THEN Done("update_book", id, 404)
          ELSE IF body = None THEN Done("update_book", id, 500)
          ELSE [pc |-> "update_book_commit", op |-> "update_book", id |-> id,
                row |-> books[id], new |-> Assign(books[id], body[1])]]
    /\ UNCHANGED <<authors, books, book_log, last, nreq>>

\* the columns the session saw change: the flush writes these and no others
Dirty(row, new) == {k \in DOMAIN row : new[k] # row[k]}

\* update_book: db.session.commit() issues UPDATE book SET <dirty columns>
\* WHERE id = :id, which fails when the row is gone; with nothing dirty there
\* is no UPDATE, and book.to_dict() reloads the row
update_book_commit(p) ==
    /\ session[p].pc = "update_book_commit"
    /\ LET id == session[p].id
           dirty == Dirty(session[p].row, session[p].new)
           B2 == [books EXCEPT ![id] =
                     [k \in DOMAIN @ |-> IF k \in dirty THEN session[p].new[k] ELSE @[k]]]
       IN  IF ~BookExists(books, id)
           THEN /\ UNCHANGED books
                /\ session' = [session EXCEPT ![p] = Done("update_book", id, 500)]
           ELSE IF BooksOK(B2)
           THEN /\ books' = B2
                /\ session' = [session EXCEPT ![p] = Done("update_book", id, 200)]
           ELSE /\ UNCHANGED books
                /\ session' = [session EXCEPT ![p] = Done("update_book", id, 500)]
    /\ UNCHANGED <<authors, book_log, last, nreq>>

NextConc ==
    \E p \in Procs :
        \/ \E id \in IdInputs : delete_author_get(p, id)
        \/ delete_author_delete(p)
        \/ delete_author_commit(p)
        \/ \E body \in BookBodies : create_book_check(p, body)
        \/ create_book_commit(p)
        \/ \E id \in IdInputs, body \in BookBodies : update_book_get(p, id, body)
        \/ update_book_commit(p)

SpecConc == Init /\ [][NextConc]_vars

(***************************************************************************)
(* Properties of the request handlers, one request at a time                *)
(***************************************************************************)
\* the JSON object of the request served last (in the next state)
Data == last'.req[1]

HasObject == last'.req # None

\* a key of the object with a value other than null
Given(k) == k \in DOMAIN Data /\ Data[k] # None

IsSubstring(q, t) ==
    \E i \in 0..(Len(t) - Len(q)) : SubSeq(t, i + 1, i + Len(q)) = q

\* C1: every stored Book has an author_id equal to the id of an Author that
\* currently exists.
C1_ReferentialIntegrity ==
    \A b \in DOMAIN books :
        /\ books[b].author_id # None
        /\ books[b].author_id[1] \in DOMAIN authors

\* C2: a successful delete_author(id) removes the Author and every Book whose
\* author_id equals id, so that get_book on each of them is NotFound, and leaves
\* every other Author and every other Book stored unchanged.
C2_CascadeDelete ==
    [][(last'.op = "delete_author" /\ last'.status = 200) =>
        /\ last'.id \in DOMAIN authors
        /\ DOMAIN authors' = DOMAIN authors \ {last'.id}
        /\ \A a \in DOMAIN authors' : authors'[a] = authors[a]
        /\ DOMAIN books' = {b \in DOMAIN books : books[b].author_id # Some(last'.id)}
        /\ \A b \in DOMAIN books' : books'[b] = books[b]
        /\ \A b \in DOMAIN books :
              books[b].author_id = Some(last'.id) => ~BookExists(books', b)]_vars

\* the seed scenario: DELETE /api/authors/1 on the seeded store leaves exactly book 2
C2_Witness ==
    /\ nreq = 1
    /\ last.op = "delete_author" /\ last.id = 1 /\ last.status = 200
    /\ DOMAIN books = {2}
    /\ DOMAIN authors = {2}

\* C3: create_book with a title and an author_id supplied, the author_id not the
\* id of an existing Author, fails with 404 and leaves the Authors and the Books
\* as they were.
C3_CreateBookUnknownAuthor ==
    [][(/\ last'.op = "create_book"
        /\ HasObject
        /\ Given("title") /\ Data["title"][1] # <<>>
        /\ Given("author_id")
        /\ Data["author_id"][1] \notin DOMAIN authors) =>
        (last'.status = 404 /\ UNCHANGED store)]_vars

\* create_book / create_author bodies that lack a required field
LacksBookField ==
    \/ ~HasObject
    \/ ~Given("title") \/ Data["title"][1] = <<>>
    \/ ~Given("author_id")

LacksAuthorField ==
    \/ ~HasObject
    \/ ~Given("name") \/ Data["name"][1] = ""

ExactUpdate(table, table2, id) ==
    /\ DOMAIN table2 = DOMAIN table
    /\ \A r \in DOMAIN table \ {id} : table2[r] = table[r]
    /\ \A k \in DOMAIN table[id] :
          table2[id][k] = IF k \in DOMAIN Data THEN Data[k] ELSE table[id][k]

\* C5 as stated: update_book and update_author on an existing id change exactly
\* the fields whose keys are in the payload, and nothing else in the store.
C5_PartialUpdateAlways ==
    [][/\ (last'.op = "update_book" /\ HasObject /\ last'.id \in DOMAIN books) =>
            (ExactUpdate(books, books', last'.id) /\ authors' = authors)
       /\ (last'.op = "update_author" /\ HasObject /\ last'.id \in DOMAIN authors) =>
            (ExactUpdate(authors, authors', last'.id) /\ books' = books)]_vars

\* the payload asks for a value the schema forbids
BookPayloadForbidden ==
    \/ "title" \in DOMAIN Data /\ Data["title"] = None
    \/ "author_id" \in DOMAIN Data /\ Data["author_id"] = None
    \/ /\ Given("isbn")
       /\ \E b \in DOMAIN books \ {last'.id} : books[b].isbn = Data["isbn"]

AuthorPayloadForbidden == "name" \in DOMAIN Data /\ Data["name"] = None

\* C5 amended: the update changes exactly the fields of the payload unless the
\* payload asks for a null in a required column or an isbn another Book has;
\* then it fails and changes nothing.
C5_PartialUpdate ==
    [][/\ (last'.op = "update_book" /\ HasObject /\ last'.id \in DOMAIN books) =>
            IF BookPayloadForbidden
            THEN last'.status = 500 /\ UNCHANGED store
            ELSE /\ last'.status = 200
                 /\ ExactUpdate(books, books', last'.id)
                 /\ authors' = authors
       /\ (last'.op = "update_author" /\ HasObject /\ last'.id \in DOMAIN authors) =>
            IF AuthorPayloadForbidden
            THEN last'.status = 500 /\ UNCHANGED store
            ELSE /\ last'.status = 200
                 /\ ExactUpdate(authors, authors', last'.id)
                 /\ books' = books]_vars

\* update_book(1, {year: 2023}) on the seeded store: title, isbn, author_id stay
C5_Witness ==
    /\ last.op = "update_book" /\ last.id = 1 /\ last.status = 200
    /\ last.req # None /\ DOMAIN last.req[1] = {"year"}
    /\ books[1].year = Some(2023)
    /\ books[1].title = Some(PythonCrashCourse)
    /\ books[1].isbn = Some("978-1593279288")
    /\ books[1].author_id = Some(1)

\* C6: no two distinct Books have the same non-null isbn, and a create_book or
\* update_book that would give a Book the isbn of another Book fails and leaves
\* the store unchanged.
C6_IsbnUnique ==
    /\ [](\A b, c \in DOMAIN books :
            (b # c /\ books[b].isbn # None) => books[b].isbn # books[c].isbn)
    /\ [][(/\ last'.op \in {"create_book", "update_book"}
           /\ HasObject
           /\ Given("isbn")
           /\ \E b \in DOMAIN books :
                 /\ books[b].isbn = Data["isbn"]
                 /\ last'.op = "update_book" => b # last'.id) =>
           (last'.status >= 400 /\ UNCHANGED store)]_vars

\* a create_book that passed both checks and was refused for its isbn
C6_Witness ==
    /\ last.op = "create_book" /\ last.status = 500
    /\ \E b \in DOMAIN books : books[b].isbn = last.req[1]["isbn"]

\* the ids of the Books the claim lets search_books(q, author_id) return
SearchExpected(q, aid) ==
    {b \in DOMAIN books :
        /\ q # None => IsSubstring(Lower(q[1]), Lower(books[b].title[1]))
        /\ aid # None => books[b].author_id = aid}

\* C7: search_books returns exactly the Books whose title contains q ignoring
\* case (when q is given) and whose author_id is the one given (when given),
\* and count is their number.
C7_SearchExact ==
    last.op = "search_books" =>
        /\ {last.body.books[i].id : i \in DOMAIN last.body.books}
              = SearchExpected(last.req[1], last.req[2])
        /\ last.body.count = Cardinality(SearchExpected(last.req[1], last.req[2]))

\* C8: get, update and delete of an id that does not exist return 404, and a
\* request that returns an error leaves the store unchanged.
C8_NotFound ==
    [][/\ (/\ last'.op \in {"get_author", "update_author", "delete_author"}
           /\ last'.id \notin DOMAIN authors) => last'.status = 404
       /\ (/\ last'.op \in {"get_book", "update_book", "delete_book"}
           /\ last'.id \notin DOMAIN books) => last'.status = 404
       /\ last'.status >= 400 => UNCHANGED store]_vars

\* a delete of a Book that an earlier request removed
C8_Witness ==
    /\ last.op = "delete_book" /\ last.status = 404
    /\ last.id \in {1, 2}
    /\ last.id \notin DOMAIN books

\* the titles of the Books of author a, in the order the Books were inserted
TitlesInInsertionOrder(a) ==
    LET Owned(b) == books[b].author_id = Some(a)
        ids == SelectSeq(book_log, Owned)
    IN  [i \in DOMAIN ids |-> books[ids[i]].title]

\* C10: the books list get_author returns for Author a is the current titles of
\* the Books whose author_id is a.id, in insertion order.
C10_AuthorBooksCurrent ==
    /\ \A a \in DOMAIN authors :
          Author_to_dict(authors, books, a).books = TitlesInInsertionOrder(a)
    /\ (last.op = "get_author" /\ last.status = 200) =>
          last.body.books = TitlesInInsertionOrder(last.id)

\* get_author after a Book was reassigned to the Author
C10_Witness ==
    /\ last.op = "get_author" /\ last.status = 200
    /\ Len(last.body.books) = 2
    /\ books[1].author_id = Some(2)

(***************************************************************************)
(* Properties of requests in flight together                                *)
(***************************************************************************)
\* C9: delete_author is one atomic unit of work under interleaving: when its
\* commit is done the Author is gone and no Book with that author_id is left
\* in the store.
C9_DeleteAuthorAtomic ==
    [][\A p \in Procs :
          (session[p].pc = "delete_author_commit" /\ session'[p].pc = "done") =>
              /\ session[p].id \notin DOMAIN authors'
              /\ \A b \in DOMAIN books' : books'[b].author_id # Some(session[p].id)]_vars

====
